---- MODULE Spec2Model ----
(***************************************************************************)
(* The connection editor of the admin settings (Connections.svelte): the   *)
(* parallel OpenAI lists (URLs, key inputs, keep flags, key descriptors,   *)
(* configs), the Ollama lists, the update handlers and the requests they   *)
(* put in flight, with the backend they talk to.                           *)
(*                                                                         *)
(* A string is a sequence of one-character strings; '' is << >>.           *)
(* Lists are sequences, so the source's 0-based index idx is idx + 1 here. *)
(* A config map is a function from the positions that hold a config; a     *)
(* position whose value is undefined in the source is outside its domain.  *)
(***************************************************************************)
EXTENDS Integers, Sequences, FiniteSets, TLC

VARIABLES
    OPENAI_API_BASE_URLS,
    OPENAI_API_KEYS,
    OPENAI_API_KEY_KEEP,
    OPENAI_API_KEY_METADATA,
    OPENAI_API_CONFIGS,
    OLLAMA_BASE_URLS,
    OLLAMA_API_CONFIGS,
    ENABLE_OPENAI_API,
    ENABLE_OLLAMA_API,
    openAIKeySecurityMeta,
    allowedOpenAIBaseUrls,
    mounted,
    openaiInFlight,
    ollamaInFlight,
    server,
    probes,
    pipelineUrls,
    models,
    modelsInFlight,
    ops,
    last,
    key,
    masked,
    remasked,
    maskPc,
    plain,
    cipherKey,
    ciphertext,
    readKey,
    decrypted,
    codecPc,
    saveEvents,
    configInFlight

openaiVars ==
    << OPENAI_API_BASE_URLS, OPENAI_API_KEYS, OPENAI_API_KEY_KEEP,
       OPENAI_API_KEY_METADATA, OPENAI_API_CONFIGS >>

ollamaVars ==
    << OLLAMA_BASE_URLS, OLLAMA_API_CONFIGS >>

flagVars ==
    << ENABLE_OPENAI_API, ENABLE_OLLAMA_API, openAIKeySecurityMeta,
       allowedOpenAIBaseUrls, mounted >>

netVars ==
    << openaiInFlight, ollamaInFlight, server >>

maskVars ==
    << key, masked, remasked, maskPc >>

codecVars ==
    << plain, cipherKey, ciphertext, readKey, decrypted, codecPc >>

saveVars ==
    << saveEvents, configInFlight >>

probeVars ==
    << probes, pipelineUrls >>

modelVars ==
    << models, modelsInFlight >>

vars ==
    << openaiVars, ollamaVars, flagVars, netVars, probeVars, modelVars, ops, last, maskVars, codecVars, saveVars >>

----------------------------------------------------------------------------
(* Bounds *)

\* the longest connection list the editor is driven to
MaxConns == 2

\* the most update requests of one provider awaiting their response
MaxInFlight == 2

\* the most operations the user performs in one session of the editor
MaxOps == 2

\* the longest key the masking function is applied to
MaxKeyLen == 8

\* the longest secret the codec is applied to
MaxSecretLen == 2

\* the longest key-input, keep-flag or descriptor list ensureOpenAIArrayLengths
\* is applied to (one longer than the longest URL list)
MaxSiblingLen == 3

----------------------------------------------------------------------------
(* Strings *)

Star == "*"

Slash == "/"

Max(a, b) == IF a > b THEN a ELSE b

Min(a, b) == IF a < b THEN a ELSE b

\* '*'.repeat(n)
Repeat(c, n) == [i \in 1..n |-> c]

\* s.slice(-n): the last n characters, the whole string when it is shorter
SliceLast(s, n) == SubSeq(s, Max(Len(s) - n, 0) + 1, Len(s))

\* whether part occurs in s as a contiguous substring
Contains(s, part) ==
    \E i \in 0..(Len(s) - Len(part)) : SubSeq(s, i + 1, i + Len(part)) = part

\* url.replace(/\/$/, ''): removes one slash at the end, if there is one
StripTrailingSlash(url) ==
    IF Len(url) > 0 /\ url[Len(url)] = Slash
    THEN SubSeq(url, 1, Len(url) - 1)
    ELSE url

EndsWithSlash(url) == Len(url) > 0 /\ url[Len(url)] = Slash

\* all strings over alphabet of length at most n
RECURSIVE StringsUpTo(_, _)
StringsUpTo(alphabet, n) ==
    IF n = 0
    THEN { << >> }
    ELSE LET shorter == StringsUpTo(alphabet, n - 1)
         IN  shorter \cup { Append(s, c) : s \in { t \in shorter : Len(t) = n - 1 }, c \in alphabet }

----------------------------------------------------------------------------
(* Key descriptors and masking *)

\* fingerprint: null
NullFingerprint == << >>

defaultKeyDescriptor ==
    [has_value |-> FALSE, masked |-> << >>, fingerprint |-> NullFingerprint]

\* visible = key.slice(-5): one character too many is left readable
maskKeyForDisplay_Visible5(k) ==
    IF k = << >>
    THEN << >>
    ELSE LET visible == SliceLast(k, 5)
             maskedLength == Max(Len(k) - Len(visible), 4)
         IN  Repeat(Star, maskedLength) \o visible

\* maskedLength = Math.max(key.length, 4): the visible part is not subtracted
maskKeyForDisplay_NoSubtract(k) ==
    IF k = << >>
    THEN << >>
    ELSE LET visible == SliceLast(k, 4)
             maskedLength == Max(Len(k), 4)
         IN  Repeat(Star, maskedLength) \o visible

maskKeyForDisplay(k) ==
    IF k = << >>
    THEN << >>
    ELSE LET visible == SliceLast(k, 4)
             maskedLength == Max(Len(k) - Len(visible), 4)
         IN  Repeat(Star, maskedLength) \o visible

----------------------------------------------------------------------------
(* SecretCodec: encrypt and decrypt *)

\* the characters of the secrets and of the operator's key strings
CodecAlphabet == << "a", "b", "c" >>

Ord(c) == CHOOSE i \in 1..Len(CodecAlphabet) : CodecAlphabet[i] = c

\* the character n places after c, around the alphabet
Rotate(c, n) == CodecAlphabet[((Ord(c) - 1 + n) % Len(CodecAlphabet)) + 1]

\* the key material: the hash of the operator's string (no two strings share one)
KeyMaterial(k) == << "#" >> \o k

\* the i-th number of the key stream of the material
KeyStream(material, i) == Ord(material[((i - 1) % (Len(material) - 1)) + 2])

\* the authentication tag of a ciphertext body under the material
Tag(material, body) == << material, body >>

encrypt(v, k) ==
    LET material == KeyMaterial(k)
        body == [i \in 1..Len(v) |-> Rotate(v[i], KeyStream(material, i))]
    IN  [body |-> body, tag |-> Tag(material, body)]

\* what decrypt answers: a value, or DecryptionError
Decrypted(v) == [error |-> "none", value |-> v]

DecryptionError == [error |-> "DecryptionError", value |-> << >>]

\* no secret: what reading an Unset slot answers
NoSecret == [error |-> "none", value |-> << >>]

\* the tag is not verified: the body is run through the key stream of any key
decrypt_Unverified(c, k) ==
    LET material == KeyMaterial(k)
    IN  Decrypted([i \in 1..Len(c.body) |->
                      Rotate(c.body[i], Len(CodecAlphabet) - KeyStream(material, i))])

decrypt(c, k) ==
    LET material == KeyMaterial(k)
    IN  IF c.tag # Tag(material, c.body)
        THEN DecryptionError
        ELSE Decrypted([i \in 1..Len(c.body) |->
                          Rotate(c.body[i], Len(CodecAlphabet) - KeyStream(material, i))])

----------------------------------------------------------------------------
(* Inputs the user and the backend can supply *)

\* the endpoint on the allow-list, and one that is not
UrlA == << "a" >>

UrlE == << "e" >>

\* the URLs typed into a connection
UrlInputs == { UrlA, UrlA \o << Slash >>, UrlA \o << Slash, Slash >>, UrlE }

\* a key shorter than the visible tail, and a longer one
ShortKey == << "a", "b", "c" >>

LongKey == << "v", "w", "x", "y", "z" >>

Secrets == { ShortKey, LongKey }

\* what a key input can hold: nothing, or a secret
KeyInputs == { << >> } \cup Secrets

\* ENABLE_OPENAI_API / ENABLE_OLLAMA_API: null | boolean
Null == "null"

On == "true"

Off == "false"

\* a field that is not set
Unset == "undefined"

Flip(enable) == IF enable = On THEN Off ELSE On

\* the providerConfig values told apart here: the connection enabled or not
Configs == { [enable |-> On], [enable |-> Off] }

\* {}
EmptyConfig == [enable |-> Unset]

\* the Ollama config an add builds: { ...connection.config, key: connection.key }
WithKey(config, k) == [enable |-> config.enable, key |-> k]

\* {} among the Ollama configs (no key is the empty key)
EmptyOllamaConfig == [enable |-> Unset, key |-> << >>]

\* the characters of the keys the masking function is applied to
KeyAlphabet == { "a", "b", Star }

----------------------------------------------------------------------------
(* The five OpenAI lists as one value *)

Lists ==
    [urls    |-> OPENAI_API_BASE_URLS,
     keys    |-> OPENAI_API_KEYS,
     keep    |-> OPENAI_API_KEY_KEEP,
     meta    |-> OPENAI_API_KEY_METADATA,
     configs |-> OPENAI_API_CONFIGS]

SetLists(L) ==
    /\ OPENAI_API_BASE_URLS' = L.urls
    /\ OPENAI_API_KEYS' = L.keys
    /\ OPENAI_API_KEY_KEEP' = L.keep
    /\ OPENAI_API_KEY_METADATA' = L.meta
    /\ OPENAI_API_CONFIGS' = L.configs

OllamaLists ==
    [urls |-> OLLAMA_BASE_URLS, configs |-> OLLAMA_API_CONFIGS]

SetOllamaLists(L) ==
    /\ OLLAMA_BASE_URLS' = L.urls
    /\ OLLAMA_API_CONFIGS' = L.configs

\* list.slice(0, n) when longer, padded with fill when shorter
FitLength(list, n, fill) ==
    IF Len(list) > n
    THEN SubSeq(list, 1, n)
    ELSE IF Len(list) < n
         THEN list \o Repeat(fill, n - Len(list))
         ELSE list

\* a missing keep flag is padded with true
ensureOpenAIArrayLengths_PadsKeepTrue(L) ==
    [L EXCEPT
        !.keys = FitLength(L.keys, Len(L.urls), << >>),
        !.keep = FitLength(L.keep, Len(L.urls), TRUE),
        !.meta = FitLength(L.meta, Len(L.urls), defaultKeyDescriptor)]

ensureOpenAIArrayLengths(L) ==
    [L EXCEPT
        !.keys = FitLength(L.keys, Len(L.urls), << >>),
        !.keep = FitLength(L.keep, Len(L.urls), FALSE),
        !.meta = FitLength(L.meta, Len(L.urls), defaultKeyDescriptor)]

\* list[idx] = value: an index past the end lengthens the array (the slots in
\* between, none within MaxConns, read as fill)
SetAt(list, idx, value, fill) ==
    [i \in 1..Max(Len(list), idx) |->
        IF i = idx THEN value ELSE IF i <= Len(list) THEN list[i] ELSE fill]

\* list.filter((_, i) => idx !== i)
RemoveAt(list, idx) ==
    [i \in 1..(Len(list) - (IF idx \in 1..Len(list) THEN 1 ELSE 0)) |->
        IF i < idx THEN list[i] ELSE list[i + 1]]

\* The property names of a config map are strings: position pos of a list (the
\* source's index pos - 1) is the property "0", "1", ...; a legacy entry is
\* named by its URL.
DigitChars == << "0", "1", "2", "3", "4", "5", "6", "7", "8", "9" >>

ConfigKey(pos) == << DigitChars[pos] >>

HasConfig(configs, pos) == ConfigKey(pos) \in DOMAIN configs

ConfigAt(configs, pos) == configs[ConfigKey(pos)]

\* the configs are shifted like the lists, but the last one is left behind
ShiftConfigs_KeepLast(configs, idx, n) ==
    LET from(newIdx) == IF newIdx < idx THEN newIdx ELSE newIdx + 1
        moved == { j \in 1..n : HasConfig(configs, from(j)) }
        stale == { j \in { n + 1 } : HasConfig(configs, j) }
    IN  [k \in { ConfigKey(j) : j \in moved \cup stale } |->
            LET j == CHOOSE j \in moved \cup stale : ConfigKey(j) = k
            IN  IF j \in moved THEN ConfigAt(configs, from(j)) ELSE ConfigAt(configs, j)]

\* newConfig[newIdx] = configs[newIdx < idx ? newIdx : newIdx + 1], over the
\* n URLs that are left
ShiftConfigs(configs, idx, n) ==
    LET from(newIdx) == IF newIdx < idx THEN newIdx ELSE newIdx + 1
        moved == { j \in 1..n : HasConfig(configs, from(j)) }
    IN  [k \in { ConfigKey(j) : j \in moved } |->
            ConfigAt(configs, from(CHOOSE j \in moved : ConfigKey(j) = k))]

\* configs[pos] = value
PutConfig(configs, pos, value) ==
    [k \in (DOMAIN configs) \cup { ConfigKey(pos) } |->
        IF k = ConfigKey(pos) THEN value ELSE configs[k]]

\* no config at all
NoConfigs == [k \in {} |-> EmptyConfig]

----------------------------------------------------------------------------
(* The backend: ConnectionConfigService and its store *)

Range(list) == { list[i] : i \in 1..Len(list) }

\* fingerprint(value): a one-way identifier of the value
Fingerprint(value) == << "#" >> \o value

\* the masked descriptor of a stored secret; << >> is no secret
ServerDescriptor(secret) ==
    IF secret = << >>
    THEN defaultKeyDescriptor
    ELSE [has_value |-> TRUE,
          masked |-> maskKeyForDisplay(secret),
          fingerprint |-> Fingerprint(secret)]

\* UrlNotAllowed unless the allow-list is empty or holds every normalized URL
ServerAccepts(srv, req) ==
    \/ srv.allowed = << >>
    \/ \A i \in 1..Len(req.OPENAI_API_BASE_URLS) :
          StripTrailingSlash(req.OPENAI_API_BASE_URLS[i]) \in Range(srv.allowed)

\* keep: the secret stored at that position stays; value: it is replaced, and
\* cleared by the empty value
ServerSecret(srv, payload, idx) ==
    IF "keep" \in DOMAIN payload
    THEN IF idx <= Len(srv.secrets) THEN srv.secrets[idx] ELSE << >>
    ELSE payload.value

\* upsertConnections
ServerApply(srv, req) ==
    [srv EXCEPT
        !.enable = req.ENABLE_OPENAI_API,
        !.urls = [i \in 1..Len(req.OPENAI_API_BASE_URLS) |->
                    StripTrailingSlash(req.OPENAI_API_BASE_URLS[i])],
        !.configs = req.OPENAI_API_CONFIGS,
        !.secrets = [i \in 1..Len(req.OPENAI_API_BASE_URLS) |->
                        ServerSecret(srv, req.OPENAI_API_KEYS[i], i)]]

\* a response without OPENAI_API_KEYS_METADATA
NoKeyMetadata == [field \in {} |-> FALSE]

\* what getOpenAIConfig and updateOpenAIConfig answer
ServerOpenAIConfig(srv) ==
    [ENABLE_OPENAI_API |-> srv.enable,
     OPENAI_API_BASE_URLS |-> srv.urls,
     OPENAI_API_CONFIGS |-> srv.configs,
     OPENAI_API_KEYS |-> [i \in 1..Len(srv.secrets) |-> ServerDescriptor(srv.secrets[i])],
     OPENAI_API_KEYS_METADATA |->
        IF srv.reportsKeyMetadata
        THEN [persistence_enabled |-> srv.persistence_enabled,
              encryption_enabled |-> srv.encryption_enabled]
        ELSE NoKeyMetadata,
     OPENAI_ALLOWED_BASE_URLS |-> srv.allowed]

\* the Ollama side of upsertConnections
ServerApplyOllama(srv, req) ==
    [srv EXCEPT
        !.ollamaEnable = req.ENABLE_OLLAMA_API,
        !.ollamaUrls = [i \in 1..Len(req.OLLAMA_BASE_URLS) |->
                          StripTrailingSlash(req.OLLAMA_BASE_URLS[i])],
        !.ollamaConfigs = req.OLLAMA_API_CONFIGS]

\* the connection settings a models list is computed from
Snapshot(srv) ==
    [enable |-> srv.enable, urls |-> srv.urls, configs |-> srv.configs,
     secrets |-> srv.secrets, ollamaEnable |-> srv.ollamaEnable,
     ollamaUrls |-> srv.ollamaUrls, ollamaConfigs |-> srv.ollamaConfigs]

\* the process restarts: without persistence the secrets lived in memory only
\* and every slot is Unset again; flushed records the positions that lost one
ServerRestart(srv) ==
    IF srv.persistence_enabled
    THEN [srv EXCEPT !.restarted = TRUE, !.flushed = {}]
    ELSE [srv EXCEPT
             !.secrets = [i \in 1..Len(srv.secrets) |-> << >>],
             !.restarted = TRUE,
             !.flushed = { i \in 1..Len(srv.secrets) : srv.secrets[i] # << >> }]

\* the backends the editor is mounted against
ServerInits ==
    { [enable |-> On,
       urls |-> << UrlA >>,
       configs |-> PutConfig(NoConfigs, 1, [enable |-> On]),
       secrets |-> << LongKey >>,
       ollamaEnable |-> On,
       ollamaUrls |-> << UrlA >>,
       ollamaConfigs |-> PutConfig(NoConfigs, 1, [enable |-> On, key |-> << >>]),
       allowed |-> << UrlA >>,
       persistence_enabled |-> TRUE,
       encryption_enabled |-> TRUE,
       reportsKeyMetadata |-> TRUE,
       restarted |-> FALSE,
       flushed |-> {}],
      [enable |-> On,
       urls |-> << UrlA, UrlA >>,
       configs |-> [k \in { UrlA } |-> [enable |-> Off]],
       secrets |-> << ShortKey, << >> >>,
       ollamaEnable |-> Off,
       ollamaUrls |-> << >>,
       ollamaConfigs |-> NoConfigs,
       allowed |-> << UrlA >>,
       persistence_enabled |-> FALSE,
       encryption_enabled |-> FALSE,
       reportsKeyMetadata |-> FALSE,
       restarted |-> FALSE,
       flushed |-> {}],
      [enable |-> On,
       urls |-> << UrlA >>,
       configs |-> NoConfigs,
       secrets |-> << LongKey >>,
       ollamaEnable |-> Off,
       ollamaUrls |-> << >>,
       ollamaConfigs |-> NoConfigs,
       allowed |-> << UrlA >>,
       persistence_enabled |-> TRUE,
       encryption_enabled |-> FALSE,
       reportsKeyMetadata |-> TRUE,
       restarted |-> FALSE,
       flushed |-> {}] }

----------------------------------------------------------------------------
(* The handlers of the editor, as functions of the lists *)

\* OPENAI_API_BASE_URLS.map((url) => url.replace(/\/$/, ''))
StripAll(urls) == [i \in 1..Len(urls) |-> StripTrailingSlash(urls[i])]

\* the key input is sent along with keep
keyPayloads_KeepWithValue(L) ==
    [idx \in 1..Len(L.urls) |->
        IF idx <= Len(L.keep) /\ L.keep[idx]
        THEN [keep |-> TRUE, value |-> IF idx <= Len(L.keys) THEN L.keys[idx] ELSE << >>]
        ELSE [value |-> IF idx <= Len(L.keys) THEN L.keys[idx] ELSE << >>]]

\* { keep: true } where the keep flag is set, else { value: key ?? '' }
keyPayloads(L) ==
    [idx \in 1..Len(L.urls) |->
        IF idx <= Len(L.keep) /\ L.keep[idx]
        THEN [keep |-> TRUE]
        ELSE [value |-> IF idx <= Len(L.keys) THEN L.keys[idx] ELSE << >>]]

\* the lists updateOpenAIHandler leaves before it awaits the response
NormalizeOpenAI(L) == ensureOpenAIArrayLengths([L EXCEPT !.urls = StripAll(L.urls)])

\* the body of the request updateOpenAIHandler sends
OpenAIRequest(L, enable) ==
    [ENABLE_OPENAI_API |-> enable,
     OPENAI_API_BASE_URLS |-> L.urls,
     OPENAI_API_KEYS |-> keyPayloads(L),
     OPENAI_API_CONFIGS |-> L.configs]

\* the request is sent whatever the enable flag holds
updateOpenAIHandler_Unguarded(L, enable) ==
    /\ SetLists(NormalizeOpenAI(L))
    /\ openaiInFlight' =
           Append(openaiInFlight, OpenAIRequest(NormalizeOpenAI(L), enable))

\* updateOpenAIHandler up to its await, run on lists L
updateOpenAIHandler(L, enable) ==
    IF enable # Null
    THEN /\ SetLists(NormalizeOpenAI(L))
         /\ openaiInFlight' =
                Append(openaiInFlight, OpenAIRequest(NormalizeOpenAI(L), enable))
    ELSE /\ SetLists(L)
         /\ UNCHANGED openaiInFlight

\* the flags are read off the descriptors: keys are persisted, and encrypted,
\* when some descriptor reports a stored key
keySecurityMeta_FromDescriptors(res) ==
    [persistence_enabled |->
        \E i \in 1..Len(res.OPENAI_API_KEYS) : res.OPENAI_API_KEYS[i].has_value,
     encryption_enabled |->
        \E i \in 1..Len(res.OPENAI_API_KEYS) : res.OPENAI_API_KEYS[i].has_value]

\* res.OPENAI_API_KEYS_METADATA?.persistence_enabled ?? false, and the same for
\* encryption_enabled
keySecurityMeta(res) ==
    [persistence_enabled |->
        IF "persistence_enabled" \in DOMAIN res.OPENAI_API_KEYS_METADATA
        THEN res.OPENAI_API_KEYS_METADATA.persistence_enabled
        ELSE FALSE,
     encryption_enabled |->
        IF "encryption_enabled" \in DOMAIN res.OPENAI_API_KEYS_METADATA
        THEN res.OPENAI_API_KEYS_METADATA.encryption_enabled
        ELSE FALSE]

\* the key inputs are left as they are when the response is processed
applyOpenAIResponse_KeepsKeyInputs(res) ==
    ensureOpenAIArrayLengths(
        [urls |-> res.OPENAI_API_BASE_URLS,
         configs |-> res.OPENAI_API_CONFIGS,
         meta |-> res.OPENAI_API_KEYS,
         keys |-> OPENAI_API_KEYS,
         keep |-> [i \in 1..Len(res.OPENAI_API_KEYS) |-> res.OPENAI_API_KEYS[i].has_value]])

\* updateOpenAIHandler after its await, for a response res
applyOpenAIResponse(res) ==
    ensureOpenAIArrayLengths(
        [urls |-> res.OPENAI_API_BASE_URLS,
         configs |-> res.OPENAI_API_CONFIGS,
         meta |-> res.OPENAI_API_KEYS,
         keys |-> [i \in 1..Len(res.OPENAI_API_BASE_URLS) |-> << >>],
         keep |-> [i \in 1..Len(res.OPENAI_API_KEYS) |-> res.OPENAI_API_KEYS[i].has_value]])

\* the descriptor an add or an edit holds for a key typed in
LocalDescriptor(k) ==
    IF k # << >>
    THEN [masked |-> maskKeyForDisplay(k), has_value |-> TRUE, fingerprint |-> NullFingerprint]
    ELSE defaultKeyDescriptor

\* the config of the new connection is stored at the first position
addOpenAIConnection_ConfigAtFirst(L, connection) ==
    ensureOpenAIArrayLengths(
        [urls |-> Append(L.urls, connection.url),
         keys |-> Append(L.keys, connection.key),
         keep |-> Append(L.keep, connection.hasStoredKey /\ ~connection.keyChanged),
         meta |-> Append(L.meta, LocalDescriptor(connection.key)),
         configs |-> PutConfig(L.configs, 1, connection.config)])

\* addOpenAIConnectionHandler before it calls updateOpenAIHandler
addOpenAIConnection(L, connection) ==
    ensureOpenAIArrayLengths(
        [urls |-> Append(L.urls, connection.url),
         keys |-> Append(L.keys, connection.key),
         keep |-> Append(L.keep, connection.hasStoredKey /\ ~connection.keyChanged),
         meta |-> Append(L.meta, LocalDescriptor(connection.key)),
         configs |-> PutConfig(L.configs, Len(L.urls) + 1, connection.config)])

\* an edit that leaves the key alone builds the descriptor anew
editOpenAIConnection_NewDescriptor(L, idx, connection) ==
    ensureOpenAIArrayLengths(
        IF connection.keyChanged
        THEN [urls |-> [L.urls EXCEPT ![idx] = connection.url],
              configs |-> PutConfig(L.configs, idx, connection.config),
              keys |-> [L.keys EXCEPT ![idx] = connection.key],
              keep |-> [L.keep EXCEPT ![idx] = FALSE],
              meta |-> [L.meta EXCEPT ![idx] = LocalDescriptor(connection.key)]]
        ELSE [urls |-> [L.urls EXCEPT ![idx] = connection.url],
              configs |-> PutConfig(L.configs, idx, connection.config),
              keys |-> [L.keys EXCEPT ![idx] = << >>],
              keep |-> [L.keep EXCEPT ![idx] = connection.hasStoredKey],
              meta |-> [L.meta EXCEPT ![idx] =
                          [defaultKeyDescriptor EXCEPT !.has_value = connection.hasStoredKey]]])

\* onSubmit of the connection at idx before it calls updateOpenAIHandler
editOpenAIConnection(L, idx, connection) ==
    ensureOpenAIArrayLengths(
        IF connection.keyChanged
        THEN [urls |-> [L.urls EXCEPT ![idx] = connection.url],
              configs |-> PutConfig(L.configs, idx, connection.config),
              keys |-> [L.keys EXCEPT ![idx] = connection.key],
              keep |-> [L.keep EXCEPT ![idx] = FALSE],
              meta |-> [L.meta EXCEPT ![idx] = LocalDescriptor(connection.key)]]
        ELSE [urls |-> [L.urls EXCEPT ![idx] = connection.url],
              configs |-> PutConfig(L.configs, idx, connection.config),
              keys |-> [L.keys EXCEPT ![idx] = << >>],
              keep |-> [L.keep EXCEPT ![idx] = connection.hasStoredKey],
              meta |-> [L.meta EXCEPT ![idx] =
                          [L.meta[idx] EXCEPT !.has_value = connection.hasStoredKey]]])

\* onSubmit of a row whose idx is no longer in the list, before it calls
\* updateOpenAIHandler: the same assignments, none of which tests idx
staleEditOpenAIConnection(L, idx, connection) ==
    ensureOpenAIArrayLengths(
        IF connection.keyChanged
        THEN [urls |-> SetAt(L.urls, idx, connection.url, << >>),
              configs |-> PutConfig(L.configs, idx, connection.config),
              keys |-> SetAt(L.keys, idx, connection.key, << >>),
              keep |-> SetAt(L.keep, idx, FALSE, FALSE),
              meta |-> SetAt(L.meta, idx, LocalDescriptor(connection.key),
                             defaultKeyDescriptor)]
        ELSE [urls |-> SetAt(L.urls, idx, connection.url, << >>),
              configs |-> PutConfig(L.configs, idx, connection.config),
              keys |-> SetAt(L.keys, idx, << >>, << >>),
              keep |-> SetAt(L.keep, idx, connection.hasStoredKey, FALSE),
              meta |-> SetAt(L.meta, idx,
                             [defaultKeyDescriptor EXCEPT
                                 !.has_value = connection.hasStoredKey],
                             defaultKeyDescriptor)])

\* onDelete of the connection at idx before it calls updateOpenAIHandler
deleteOpenAIConnection(L, idx) ==
    ensureOpenAIArrayLengths(
        [urls |-> RemoveAt(L.urls, idx),
         keys |-> RemoveAt(L.keys, idx),
         keep |-> RemoveAt(L.keep, idx),
         meta |-> RemoveAt(L.meta, idx),
         configs |-> ShiftConfigs(L.configs, idx, Len(L.urls) - 1)])

\* the body of the request updateOllamaHandler sends
OllamaRequest(L, enable) ==
    [ENABLE_OLLAMA_API |-> enable,
     OLLAMA_BASE_URLS |-> L.urls,
     OLLAMA_API_CONFIGS |-> L.configs]

\* updateOllamaHandler up to its await, run on lists L
updateOllamaHandler(L, enable) ==
    IF enable # Null
    THEN /\ SetOllamaLists([L EXCEPT !.urls = StripAll(L.urls)])
         /\ ollamaInFlight' =
                Append(ollamaInFlight,
                       OllamaRequest([L EXCEPT !.urls = StripAll(L.urls)], enable))
    ELSE /\ SetOllamaLists(L)
         /\ UNCHANGED ollamaInFlight

\* addOllamaConnectionHandler before it calls updateOllamaHandler
addOllamaConnection(L, connection) ==
    [urls |-> Append(L.urls, connection.url),
     configs |-> PutConfig(L.configs, Len(L.urls) + 1,
                           WithKey(connection.config, connection.key))]

\* onDelete of the Ollama connection at idx
deleteOllamaConnection(L, idx) ==
    [urls |-> RemoveAt(L.urls, idx),
     configs |-> ShiftConfigs(L.configs, idx, Len(L.urls) - 1)]

\* if (!configs[idx]) configs[idx] = configs[url] || {}, for every URL
LegacyConfigs(configs, urls, empty) ==
    [k \in (DOMAIN configs) \cup { ConfigKey(i) : i \in 1..Len(urls) } |->
        IF k \in DOMAIN configs
        THEN configs[k]
        ELSE LET i == CHOOSE i \in 1..Len(urls) : ConfigKey(i) = k
             IN  IF urls[i] \in DOMAIN configs THEN configs[urls[i]] ELSE empty]

\* a probe is issued for every connection, disabled or not
IssuedProbes_All(urls, configs, enable) ==
    IF enable = On
    THEN { [idx |-> i, url |-> urls[i]] : i \in 1..Len(urls) }
    ELSE {}

\* the probes onMount issues: getOpenAIModels for every connection whose config
\* does not disable it, each with the URL its callback closed over
IssuedProbes(urls, configs, enable) ==
    IF enable = On
    THEN { [idx |-> i, url |-> urls[i]] :
              i \in { j \in 1..Len(urls) :
                         ~(HasConfig(configs, j) /\ ConfigAt(configs, j).enable = Off) } }
    ELSE {}

----------------------------------------------------------------------------
(* The state after construction *)

\* the connection of an operation that carries none
NoConnection ==
    [url |-> << >>, key |-> << >>, hasStoredKey |-> FALSE, keyChanged |-> FALSE,
     config |-> EmptyConfig]

\* what the last operation was, the lists it found, and whether it sent an
\* update request for each provider
Did(op, idx, connection, sentOpenAI, sentOllama) ==
    [op |-> op, idx |-> idx, connection |-> connection,
     pre |-> Lists, preOllama |-> OllamaLists,
     sentOpenAI |-> sentOpenAI, sentOllama |-> sentOllama]

EditorInit ==
    /\ OPENAI_API_BASE_URLS = << << >> >>
    /\ OPENAI_API_KEYS = << << >> >>
    /\ OPENAI_API_KEY_KEEP = << >>
    /\ OPENAI_API_KEY_METADATA = << >>
    /\ OPENAI_API_CONFIGS = NoConfigs
    /\ OLLAMA_BASE_URLS = << << >> >>
    /\ OLLAMA_API_CONFIGS = NoConfigs
    /\ ENABLE_OPENAI_API = Null
    /\ ENABLE_OLLAMA_API = Null
    /\ openAIKeySecurityMeta = [persistence_enabled |-> FALSE, encryption_enabled |-> FALSE]
    /\ allowedOpenAIBaseUrls = << >>
    /\ mounted = "pending"
    /\ openaiInFlight = << >>
    /\ ollamaInFlight = << >>
    /\ probes = {}
    /\ pipelineUrls = {}
    /\ saveEvents = 0
    /\ configInFlight = 0
    /\ ops = 0
    /\ last = [op |-> "init", idx |-> 0, connection |-> NoConnection,
               pre |-> [urls |-> << << >> >>, keys |-> << << >> >>, keep |-> << >>,
                        meta |-> << >>, configs |-> NoConfigs],
               preOllama |-> [urls |-> << << >> >>, configs |-> NoConfigs],
               sentOpenAI |-> FALSE, sentOllama |-> FALSE]

\* the models store as the application loaded it before the editor was opened
ModelsLoaded ==
    /\ models = Snapshot(server)
    /\ modelsInFlight = << >>

MaskIdle ==
    /\ key = << >>
    /\ masked = << >>
    /\ remasked = << >>
    /\ maskPc = "idle"

\* nothing has been given to the codec
NoCiphertext == [body |-> << >>, tag |-> << >>]

CodecIdle ==
    /\ plain = << >>
    /\ cipherKey = << >>
    /\ ciphertext = NoCiphertext
    /\ readKey = << >>
    /\ decrypted = NoSecret
    /\ codecPc = "idle"

Init ==
    /\ EditorInit
    /\ server \in ServerInits
    /\ ModelsLoaded
    /\ MaskIdle
    /\ CodecIdle

----------------------------------------------------------------------------
(* What is on screen *)

\* the settings are shown once both enable flags are loaded (the spinner before)
Shown == ENABLE_OPENAI_API # Null /\ ENABLE_OLLAMA_API # Null

\* the OpenAI rows and their add button
OpenAIShown == Shown /\ ENABLE_OPENAI_API = On

\* the Ollama rows and their add button
OllamaShown == Shown /\ ENABLE_OLLAMA_API = On

\* the note that CONFIG_ENCRYPTION_KEY is not set, so stored API keys remain
\* in-memory only and are cleared on restart
EncryptionWarningShown == OpenAIShown /\ ~openAIKeySecurityMeta.encryption_enabled

\* the user performs one more operation of the session
UserActs ==
    /\ ops < MaxOps
    /\ ops' = ops + 1

CanSendOpenAI == Len(openaiInFlight) < MaxInFlight

CanSendOllama == Len(ollamaInFlight) < MaxInFlight

----------------------------------------------------------------------------
(* onMount *)

\* every connection is marked keep, whatever its descriptor reports
keepFromMetadata_KeepAll(urls, meta) ==
    [i \in 1..Len(urls) |-> TRUE]

\* OPENAI_API_BASE_URLS.map((_, idx) => OPENAI_API_KEY_METADATA[idx]?.has_value ?? false)
keepFromMetadata(urls, meta) ==
    [i \in 1..Len(urls) |-> IF i <= Len(meta) THEN meta[i].has_value ELSE FALSE]

\* the admin's mount: the three configs are fetched, then the lists are set
Mount ==
    /\ UNCHANGED ops
    /\ mounted = "pending"
    /\ LET openaiConfig == ServerOpenAIConfig(server)
           urls == openaiConfig.OPENAI_API_BASE_URLS
           meta == openaiConfig.OPENAI_API_KEYS
           loaded ==
               ensureOpenAIArrayLengths(
                   [urls |-> urls,
                    meta |-> meta,
                    keys |-> [i \in 1..Len(urls) |-> << >>],
                    keep |-> keepFromMetadata(urls, meta),
                    configs |-> openaiConfig.OPENAI_API_CONFIGS])
       IN  /\ ENABLE_OPENAI_API' = openaiConfig.ENABLE_OPENAI_API
           /\ ENABLE_OLLAMA_API' = server.ollamaEnable
           /\ openAIKeySecurityMeta' = keySecurityMeta(openaiConfig)
           /\ allowedOpenAIBaseUrls' = openaiConfig.OPENAI_ALLOWED_BASE_URLS
           /\ SetLists(
                 IF openaiConfig.ENABLE_OPENAI_API = On
                 THEN [loaded EXCEPT
                          !.configs = LegacyConfigs(loaded.configs, loaded.urls, EmptyConfig)]
                 ELSE loaded)
           /\ SetOllamaLists(
                 IF server.ollamaEnable = On
                 THEN [urls |-> server.ollamaUrls,
                       configs |-> LegacyConfigs(server.ollamaConfigs, server.ollamaUrls,
                                                 EmptyOllamaConfig)]
                 ELSE [urls |-> server.ollamaUrls, configs |-> server.ollamaConfigs])
    /\ mounted' = "done"
    /\ probes' = IssuedProbes(OPENAI_API_BASE_URLS', OPENAI_API_CONFIGS', ENABLE_OPENAI_API')
    /\ last' = Did("mount", 0, NoConnection, FALSE, FALSE)
    /\ UNCHANGED << netVars, maskVars, codecVars, saveVars, pipelineUrls, modelVars >>

\* the user is no admin, or a fetch failed: onMount sets nothing
MountSkipped ==
    /\ UNCHANGED ops
    /\ mounted = "pending"
    /\ mounted' = "skipped"
    /\ last' = Did("mountSkipped", 0, NoConnection, FALSE, FALSE)
    /\ UNCHANGED << openaiVars, ollamaVars, ENABLE_OPENAI_API, ENABLE_OLLAMA_API,
                    openAIKeySecurityMeta, allowedOpenAIBaseUrls, netVars, maskVars, codecVars, saveVars, probeVars, modelVars >>

----------------------------------------------------------------------------
(* The OpenAI connections *)

\* the connection the add modal submits
AddInputs ==
    [url : UrlInputs, key : KeyInputs, hasStoredKey : BOOLEAN, keyChanged : BOOLEAN,
     config : Configs]

\* hasStoredKey={OPENAI_API_KEY_KEEP[idx]}: the prop the row at idx is given
HasStoredKeyProp(idx) == idx <= Len(OPENAI_API_KEY_KEEP) /\ OPENAI_API_KEY_KEEP[idx]

\* the connection the row at idx submits: hasStoredKey is the prop it was given
EditInputs(idx) ==
    [url : UrlInputs, key : KeyInputs, hasStoredKey : { HasStoredKeyProp(idx) },
     keyChanged : BOOLEAN, config : Configs]

AddOpenAI(connection) ==
    /\ UserActs
    /\ OpenAIShown
    /\ Len(OPENAI_API_BASE_URLS) < MaxConns
    /\ CanSendOpenAI
    /\ updateOpenAIHandler(addOpenAIConnection(Lists, connection), ENABLE_OPENAI_API)
    /\ last' = Did("addOpenAI", Len(OPENAI_API_BASE_URLS) + 1, connection, ENABLE_OPENAI_API # Null, FALSE)
    /\ UNCHANGED << ollamaVars, flagVars, ollamaInFlight, server, maskVars, codecVars, saveVars, probeVars, modelVars >>

EditOpenAI(idx, connection) ==
    /\ UserActs
    /\ OpenAIShown
    /\ CanSendOpenAI
    /\ updateOpenAIHandler(editOpenAIConnection(Lists, idx, connection), ENABLE_OPENAI_API)
    /\ last' = Did("editOpenAI", idx, connection, ENABLE_OPENAI_API # Null, FALSE)
    /\ UNCHANGED << ollamaVars, flagVars, ollamaInFlight, server, maskVars, codecVars, saveVars, probeVars, modelVars >>

DeleteOpenAI(idx) ==
    /\ UserActs
    /\ OpenAIShown
    /\ CanSendOpenAI
    /\ updateOpenAIHandler(deleteOpenAIConnection(Lists, idx), ENABLE_OPENAI_API)
    /\ last' = Did("deleteOpenAI", idx, NoConnection, ENABLE_OPENAI_API # Null, FALSE)
    /\ UNCHANGED << ollamaVars, flagVars, ollamaInFlight, server, maskVars, codecVars, saveVars, probeVars, modelVars >>

\* the rows the step before took off the list: their onSubmit closures still
\* hold their idx
StaleRows ==
    IF last.op \in { "deleteOpenAI", "openaiResponse" }
    THEN (Len(OPENAI_API_BASE_URLS) + 1)..Len(last.pre.urls)
    ELSE {}

\* the connection a row taken off the list submits: hasStoredKey is the prop
\* it was given while it was on it
StaleEditInputs(idx) ==
    [url : UrlInputs, key : KeyInputs,
     hasStoredKey : { idx <= Len(last.pre.keep) /\ last.pre.keep[idx] },
     keyChanged : BOOLEAN, config : Configs]

\* onSubmit of a row whose idx left the list with the step before (its edit was
\* under way when the list shrank)
StaleEditOpenAI(idx, connection) ==
    /\ UserActs
    /\ OpenAIShown
    /\ CanSendOpenAI
    /\ idx \in StaleRows
    /\ updateOpenAIHandler(staleEditOpenAIConnection(Lists, idx, connection), ENABLE_OPENAI_API)
    /\ last' = Did("staleEditOpenAI", idx, connection, ENABLE_OPENAI_API # Null, FALSE)
    /\ UNCHANGED << ollamaVars, flagVars, ollamaInFlight, server, maskVars, codecVars, saveVars, probeVars, modelVars >>

\* bind:url: the row writes the URL typed into it
BindOpenAIUrl(idx, url) ==
    /\ UserActs
    /\ OpenAIShown
    /\ OPENAI_API_BASE_URLS' = [OPENAI_API_BASE_URLS EXCEPT ![idx] = url]
    /\ last' = Did("bindOpenAIUrl", idx, NoConnection, FALSE, FALSE)
    /\ UNCHANGED << OPENAI_API_KEYS, OPENAI_API_KEY_KEEP, OPENAI_API_KEY_METADATA,
                    OPENAI_API_CONFIGS, ollamaVars, flagVars, netVars, maskVars, codecVars, saveVars, probeVars, modelVars >>

\* bind:keyValue: the row writes the key typed into it
BindOpenAIKey(idx, k) ==
    /\ UserActs
    /\ OpenAIShown
    /\ OPENAI_API_KEYS' = [OPENAI_API_KEYS EXCEPT ![idx] = k]
    /\ last' = Did("bindOpenAIKey", idx, NoConnection, FALSE, FALSE)
    /\ UNCHANGED << OPENAI_API_BASE_URLS, OPENAI_API_KEY_KEEP, OPENAI_API_KEY_METADATA,
                    OPENAI_API_CONFIGS, ollamaVars, flagVars, netVars, maskVars, codecVars, saveVars, probeVars, modelVars >>

\* the switch: bind:state flips the flag, on:change runs the update
ToggleOpenAI ==
    /\ UserActs
    /\ Shown
    /\ CanSendOpenAI
    /\ ENABLE_OPENAI_API' = Flip(ENABLE_OPENAI_API)
    /\ updateOpenAIHandler(Lists, Flip(ENABLE_OPENAI_API))
    /\ last' = Did("toggleOpenAI", 0, NoConnection, Flip(ENABLE_OPENAI_API) # Null, FALSE)
    /\ UNCHANGED << ollamaVars, ENABLE_OLLAMA_API, openAIKeySecurityMeta,
                    allowedOpenAIBaseUrls, mounted, ollamaInFlight, server, maskVars, codecVars, saveVars, probeVars, modelVars >>

\* the response to the k-th request in flight: the backend commits it and the
\* handler takes the lists it answers
OpenAIResponse(k) ==
    /\ UNCHANGED ops
    /\ k \in 1..Len(openaiInFlight)
    /\ ServerAccepts(server, openaiInFlight[k])
    /\ LET committed == ServerApply(server, openaiInFlight[k])
           res == ServerOpenAIConfig(committed)
       IN  /\ server' = committed
           /\ SetLists(applyOpenAIResponse(res))
           /\ openAIKeySecurityMeta' = keySecurityMeta(res)
           /\ allowedOpenAIBaseUrls' = res.OPENAI_ALLOWED_BASE_URLS
    /\ openaiInFlight' = RemoveAt(openaiInFlight, k)
    /\ modelsInFlight' = Append(modelsInFlight, Snapshot(server'))
    /\ last' = Did("openaiResponse", k, NoConnection, FALSE, FALSE)
    /\ UNCHANGED << ollamaVars, ENABLE_OPENAI_API, ENABLE_OLLAMA_API, mounted,
                    ollamaInFlight, maskVars, codecVars, saveVars, probeVars, models >>

\* the catch sends the failed request once more
OpenAIError_Retries(k) ==
    /\ UNCHANGED ops
    /\ k \in 1..Len(openaiInFlight)
    /\ openaiInFlight' = Append(RemoveAt(openaiInFlight, k), openaiInFlight[k])
    /\ last' = Did("openaiError", k, NoConnection, FALSE, FALSE)
    /\ UNCHANGED << openaiVars, ollamaVars, flagVars, ollamaInFlight, server, maskVars, codecVars, saveVars, probeVars, modelVars >>

\* the k-th request fails (rejected by the backend, or never answered): the
\* catch reports the error and the handler takes nothing
OpenAIError(k) ==
    /\ UNCHANGED ops
    /\ k \in 1..Len(openaiInFlight)
    /\ openaiInFlight' = RemoveAt(openaiInFlight, k)
    /\ last' = Did("openaiError", k, NoConnection, FALSE, FALSE)
    /\ UNCHANGED << openaiVars, ollamaVars, flagVars, ollamaInFlight, server, maskVars, codecVars, saveVars, probeVars, modelVars >>

----------------------------------------------------------------------------
(* The Ollama connections *)

\* the connection the Ollama add modal submits
OllamaAddInputs ==
    [url : UrlInputs, key : KeyInputs, hasStoredKey : { FALSE }, keyChanged : { FALSE },
     config : Configs]

AddOllama(connection) ==
    /\ UserActs
    /\ OllamaShown
    /\ Len(OLLAMA_BASE_URLS) < MaxConns
    /\ CanSendOllama
    /\ updateOllamaHandler(addOllamaConnection(OllamaLists, connection), ENABLE_OLLAMA_API)
    /\ last' = Did("addOllama", Len(OLLAMA_BASE_URLS) + 1, connection, FALSE, ENABLE_OLLAMA_API # Null)
    /\ UNCHANGED << openaiVars, flagVars, openaiInFlight, server, maskVars, codecVars, saveVars, probeVars, modelVars >>

\* onSubmit of an Ollama row
SubmitOllama(idx) ==
    /\ UserActs
    /\ OllamaShown
    /\ idx \in 1..Len(OLLAMA_BASE_URLS)
    /\ CanSendOllama
    /\ updateOllamaHandler(OllamaLists, ENABLE_OLLAMA_API)
    /\ last' = Did("submitOllama", idx, NoConnection, FALSE, ENABLE_OLLAMA_API # Null)
    /\ UNCHANGED << openaiVars, flagVars, openaiInFlight, server, maskVars, codecVars, saveVars, probeVars, modelVars >>

\* onDelete of an Ollama row: the lists are changed, no update is sent
DeleteOllama(idx) ==
    /\ UserActs
    /\ OllamaShown
    /\ idx \in 1..Len(OLLAMA_BASE_URLS)
    /\ SetOllamaLists(deleteOllamaConnection(OllamaLists, idx))
    /\ last' = Did("deleteOllama", idx, NoConnection, FALSE, FALSE)
    /\ UNCHANGED << openaiVars, flagVars, netVars, maskVars, codecVars, saveVars, probeVars, modelVars >>

\* bind:url of an Ollama row
BindOllamaUrl(idx, url) ==
    /\ UserActs
    /\ OllamaShown
    /\ idx \in 1..Len(OLLAMA_BASE_URLS)
    /\ OLLAMA_BASE_URLS' = [OLLAMA_BASE_URLS EXCEPT ![idx] = url]
    /\ last' = Did("bindOllamaUrl", idx, NoConnection, FALSE, FALSE)
    /\ UNCHANGED << OLLAMA_API_CONFIGS, openaiVars, flagVars, netVars, maskVars, codecVars, saveVars, probeVars, modelVars >>

ToggleOllama ==
    /\ UserActs
    /\ Shown
    /\ CanSendOllama
    /\ ENABLE_OLLAMA_API' = Flip(ENABLE_OLLAMA_API)
    /\ updateOllamaHandler(OllamaLists, Flip(ENABLE_OLLAMA_API))
    /\ last' = Did("toggleOllama", 0, NoConnection, FALSE, Flip(ENABLE_OLLAMA_API) # Null)
    /\ UNCHANGED << openaiVars, ENABLE_OPENAI_API, openAIKeySecurityMeta,
                    allowedOpenAIBaseUrls, mounted, openaiInFlight, server, maskVars, codecVars, saveVars, probeVars, modelVars >>

\* the response to the k-th Ollama request: the backend commits it and the
\* handler, which takes no list from it, fetches the models
OllamaResponse(k) ==
    /\ UNCHANGED ops
    /\ k \in 1..Len(ollamaInFlight)
    /\ server' = ServerApplyOllama(server, ollamaInFlight[k])
    /\ ollamaInFlight' = RemoveAt(ollamaInFlight, k)
    /\ modelsInFlight' = Append(modelsInFlight, Snapshot(server'))
    /\ last' = Did("ollamaResponse", k, NoConnection, FALSE, FALSE)
    /\ UNCHANGED << openaiVars, ollamaVars, flagVars, openaiInFlight, maskVars, codecVars, saveVars,
                    probeVars, models >>

\* the k-th Ollama request fails: the catch reports the error
OllamaError(k) ==
    /\ UNCHANGED ops
    /\ k \in 1..Len(ollamaInFlight)
    /\ ollamaInFlight' = RemoveAt(ollamaInFlight, k)
    /\ last' = Did("ollamaError", k, NoConnection, FALSE, FALSE)
    /\ UNCHANGED << openaiVars, ollamaVars, flagVars, openaiInFlight, server, maskVars, codecVars, saveVars,
                    probeVars, modelVars >>

----------------------------------------------------------------------------
(* The models store *)

\* models.set(await getModels()): the k-th getModels call is answered, from the
\* settings committed when it was made or from those committed by now, and the
\* store takes the answer
ModelsFetched(k, latest) ==
    /\ k \in 1..Len(modelsInFlight)
    /\ models' = IF latest THEN Snapshot(server) ELSE modelsInFlight[k]
    /\ modelsInFlight' = RemoveAt(modelsInFlight, k)
    /\ UNCHANGED << openaiVars, ollamaVars, flagVars, netVars, probeVars, ops, last,
                    maskVars, codecVars, saveVars >>

----------------------------------------------------------------------------
(* The model-listing probes of onMount *)

\* getOpenAIModels answers the probe p: its callback marks the URL it closed
\* over when the answer reports pipelines
ProbeReturns(p, pipelines) ==
    /\ p \in probes
    /\ probes' = probes \ { p }
    /\ pipelineUrls' = IF pipelines THEN pipelineUrls \cup { p.url } ELSE pipelineUrls
    /\ UNCHANGED << openaiVars, ollamaVars, flagVars, netVars, ops, last, maskVars, codecVars, saveVars,
                    modelVars >>

\* the failure of a probe takes the settings off the screen
ProbeFails_HidesSettings(p) ==
    /\ p \in probes
    /\ probes' = probes \ { p }
    /\ ENABLE_OPENAI_API' = Null
    /\ UNCHANGED << openaiVars, ollamaVars, ENABLE_OLLAMA_API, openAIKeySecurityMeta,
                    allowedOpenAIBaseUrls, mounted, netVars, ops, last, maskVars, codecVars, saveVars,
                    pipelineUrls, modelVars >>

\* the probe p fails: its callback ends with the rejection, which nothing
\* handles
ProbeFails(p) ==
    /\ p \in probes
    /\ probes' = probes \ { p }
    /\ UNCHANGED << openaiVars, ollamaVars, flagVars, netVars, ops, last, maskVars, codecVars, saveVars,
                    pipelineUrls, modelVars >>

----------------------------------------------------------------------------
(* Restart *)

\* the backend process is restarted and the page is loaded again: the requests
\* awaiting an answer are lost, the component is constructed anew and the
\* application loads its models
Restart ==
    /\ UserActs
    /\ mounted = "done"
    /\ server' = ServerRestart(server)
    /\ SetLists([urls |-> << << >> >>, keys |-> << << >> >>, keep |-> << >>,
                 meta |-> << >>, configs |-> NoConfigs])
    /\ SetOllamaLists([urls |-> << << >> >>, configs |-> NoConfigs])
    /\ ENABLE_OPENAI_API' = Null
    /\ ENABLE_OLLAMA_API' = Null
    /\ openAIKeySecurityMeta' = [persistence_enabled |-> FALSE, encryption_enabled |-> FALSE]
    /\ allowedOpenAIBaseUrls' = << >>
    /\ mounted' = "pending"
    /\ openaiInFlight' = << >>
    /\ ollamaInFlight' = << >>
    /\ probes' = {}
    /\ pipelineUrls' = {}
    /\ models' = Snapshot(server')
    /\ modelsInFlight' = << >>
    /\ saveEvents' = 0
    /\ configInFlight' = 0
    /\ last' = Did("restart", 0, NoConnection, FALSE, FALSE)
    /\ UNCHANGED << maskVars, codecVars >>

----------------------------------------------------------------------------
(* Save *)

\* 'save' is dispatched before the update handlers are called
Save_DispatchesTwice ==
    /\ UserActs
    /\ ENABLE_OPENAI_API # Null => CanSendOpenAI
    /\ ENABLE_OLLAMA_API # Null => CanSendOllama
    /\ updateOpenAIHandler(Lists, ENABLE_OPENAI_API)
    /\ updateOllamaHandler(OllamaLists, ENABLE_OLLAMA_API)
    /\ saveEvents' = saveEvents + 2
    /\ configInFlight' = configInFlight + 1
    /\ last' = Did("save", 0, NoConnection, ENABLE_OPENAI_API # Null, ENABLE_OLLAMA_API # Null)
    /\ UNCHANGED << flagVars, server, maskVars, codecVars, probeVars, modelVars >>

\* submitHandler: both update handlers run up to their await, then 'save' is
\* dispatched and getBackendConfig is called
Save ==
    /\ UserActs
    /\ ENABLE_OPENAI_API # Null => CanSendOpenAI
    /\ ENABLE_OLLAMA_API # Null => CanSendOllama
    /\ updateOpenAIHandler(Lists, ENABLE_OPENAI_API)
    /\ updateOllamaHandler(OllamaLists, ENABLE_OLLAMA_API)
    /\ saveEvents' = saveEvents + 1
    /\ configInFlight' = configInFlight + 1
    /\ last' = Did("save", 0, NoConnection, ENABLE_OPENAI_API # Null, ENABLE_OLLAMA_API # Null)
    /\ UNCHANGED << flagVars, server, maskVars, codecVars, probeVars, modelVars >>

\* config.set(await getBackendConfig()): a getBackendConfig call of
\* submitHandler is answered and the config store takes the answer
ConfigFetched ==
    /\ configInFlight > 0
    /\ configInFlight' = configInFlight - 1
    /\ UNCHANGED << openaiVars, ollamaVars, flagVars, netVars, probeVars, modelVars, ops,
                    last, maskVars, codecVars, saveEvents >>

----------------------------------------------------------------------------
(* The editor *)

Next ==
    \/ Mount
    \/ MountSkipped
    \/ \E connection \in AddInputs : AddOpenAI(connection)
    \/ \E idx \in 1..Len(OPENAI_API_BASE_URLS) :
          \E connection \in EditInputs(idx) : EditOpenAI(idx, connection)
    \/ \E idx \in 1..Len(OPENAI_API_BASE_URLS) : DeleteOpenAI(idx)
    \/ \E idx \in StaleRows :
          \E connection \in StaleEditInputs(idx) : StaleEditOpenAI(idx, connection)
    \/ \E idx \in 1..Len(OPENAI_API_BASE_URLS), url \in UrlInputs : BindOpenAIUrl(idx, url)
    \/ \E idx \in 1..Len(OPENAI_API_BASE_URLS), k \in KeyInputs : BindOpenAIKey(idx, k)
    \/ ToggleOpenAI
    \/ \E k \in 1..MaxInFlight : OpenAIResponse(k)
    \/ \E k \in 1..MaxInFlight : OpenAIError(k)
    \/ \E connection \in OllamaAddInputs : AddOllama(connection)
    \/ \E idx \in 1..MaxConns : SubmitOllama(idx)
    \/ \E idx \in 1..MaxConns : DeleteOllama(idx)
    \/ \E idx \in 1..MaxConns, url \in UrlInputs : BindOllamaUrl(idx, url)
    \/ ToggleOllama
    \/ \E k \in 1..MaxInFlight : OllamaResponse(k)
    \/ \E k \in 1..MaxInFlight : OllamaError(k)
    \/ \E k \in 1..Len(modelsInFlight), latest \in BOOLEAN : ModelsFetched(k, latest)
    \/ \E p \in probes, pipelines \in BOOLEAN : ProbeReturns(p, pipelines)
    \/ \E p \in probes : ProbeFails(p)
    \/ Restart
    \/ Save
    \/ ConfigFetched

Spec == Init /\ [][Next]_vars

----------------------------------------------------------------------------
(* The masking function on its own: a key is drawn, masked, and the masked  *)
(* string is masked again                                                   *)

KeyStrings == StringsUpTo(KeyAlphabet, MaxKeyLen)

MaskInit ==
    /\ EditorInit
    /\ server \in ServerInits
    /\ ModelsLoaded
    /\ key \in KeyStrings
    /\ masked = << >>
    /\ remasked = << >>
    /\ maskPc = "input"
    /\ CodecIdle

ApplyMask ==
    /\ maskPc = "input"
    /\ masked' = maskKeyForDisplay(key)
    /\ maskPc' = "masked"
    /\ UNCHANGED << openaiVars, ollamaVars, flagVars, netVars, probeVars, modelVars, ops, last, key, remasked, codecVars, saveVars >>

ApplyMaskAgain ==
    /\ maskPc = "masked"
    /\ remasked' = maskKeyForDisplay(masked)
    /\ maskPc' = "remasked"
    /\ UNCHANGED << openaiVars, ollamaVars, flagVars, netVars, probeVars, modelVars, ops, last, key, masked, codecVars, saveVars >>

MaskNext ==
    \/ ApplyMask
    \/ ApplyMaskAgain

MaskSpec == MaskInit /\ [][MaskNext]_vars

----------------------------------------------------------------------------
(* The codec on its own: a secret is encrypted under one key and the        *)
(* ciphertext is decrypted under a key, the same or another                 *)

\* the non-empty secrets
CodecValues == StringsUpTo(Range(CodecAlphabet), MaxSecretLen) \ { << >> }

\* the operator's key strings
CodecKeys == { << "a" >>, << "b" >>, << "a", "b" >> }

CodecInit ==
    /\ EditorInit
    /\ server \in ServerInits
    /\ ModelsLoaded
    /\ MaskIdle
    /\ plain \in CodecValues
    /\ cipherKey \in CodecKeys
    /\ ciphertext = NoCiphertext
    /\ readKey = << >>
    /\ decrypted = NoSecret
    /\ codecPc = "input"

Encrypt ==
    /\ codecPc = "input"
    /\ ciphertext' = encrypt(plain, cipherKey)
    /\ codecPc' = "encrypted"
    /\ UNCHANGED << openaiVars, ollamaVars, flagVars, netVars, probeVars, modelVars, ops,
                    last, maskVars, saveVars, plain, cipherKey, readKey, decrypted >>

Decrypt(k) ==
    /\ codecPc = "encrypted"
    /\ readKey' = k
    /\ decrypted' = decrypt(ciphertext, k)
    /\ codecPc' = "decrypted"
    /\ UNCHANGED << openaiVars, ollamaVars, flagVars, netVars, probeVars, modelVars, ops,
                    last, maskVars, saveVars, plain, cipherKey, ciphertext >>

CodecNext ==
    \/ Encrypt
    \/ \E k \in CodecKeys : Decrypt(k)

CodecSpec == CodecInit /\ [][CodecNext]_vars

----------------------------------------------------------------------------
(* ensureOpenAIArrayLengths on its own: the five lists are drawn, of any    *)
(* lengths, and the function is applied to them twice                       *)

\* all lists over values of length at most n
RECURSIVE ListsUpTo(_, _)
ListsUpTo(values, n) ==
    IF n = 0
    THEN { << >> }
    ELSE LET shorter == ListsUpTo(values, n - 1)
         IN  shorter \cup { Append(l, v) : l \in { t \in shorter : Len(t) = n - 1 }, v \in values }

EnsureInputs ==
    [urls : ListsUpTo({ UrlA }, MaxConns),
     keys : ListsUpTo({ << >>, ShortKey }, MaxSiblingLen),
     keep : ListsUpTo(BOOLEAN, MaxSiblingLen),
     meta : ListsUpTo({ defaultKeyDescriptor, ServerDescriptor(ShortKey) }, MaxSiblingLen),
     configs : { NoConfigs, PutConfig(NoConfigs, 1, [enable |-> Off]) }]

EnsureInit ==
    /\ \E L \in EnsureInputs :
          /\ OPENAI_API_BASE_URLS = L.urls
          /\ OPENAI_API_KEYS = L.keys
          /\ OPENAI_API_KEY_KEEP = L.keep
          /\ OPENAI_API_KEY_METADATA = L.meta
          /\ OPENAI_API_CONFIGS = L.configs
    /\ OLLAMA_BASE_URLS = << << >> >>
    /\ OLLAMA_API_CONFIGS = NoConfigs
    /\ ENABLE_OPENAI_API = Null
    /\ ENABLE_OLLAMA_API = Null
    /\ openAIKeySecurityMeta = [persistence_enabled |-> FALSE, encryption_enabled |-> FALSE]
    /\ allowedOpenAIBaseUrls = << >>
    /\ mounted = "pending"
    /\ openaiInFlight = << >>
    /\ ollamaInFlight = << >>
    /\ probes = {}
    /\ pipelineUrls = {}
    /\ saveEvents = 0
    /\ configInFlight = 0
    /\ ops = 0
    /\ last = Did("init", 0, NoConnection, FALSE, FALSE)
    /\ server \in ServerInits
    /\ ModelsLoaded
    /\ MaskIdle
    /\ CodecIdle

\* ensureOpenAIArrayLengths()
Ensure ==
    /\ last.op = "init"
    /\ SetLists(ensureOpenAIArrayLengths(Lists))
    /\ last' = Did("ensure", 0, NoConnection, FALSE, FALSE)
    /\ UNCHANGED << ollamaVars, flagVars, netVars, probeVars, modelVars, ops, maskVars, codecVars, saveVars >>

\* ensureOpenAIArrayLengths() once more
EnsureAgain ==
    /\ last.op = "ensure"
    /\ SetLists(ensureOpenAIArrayLengths(Lists))
    /\ last' = Did("ensureAgain", 0, NoConnection, FALSE, FALSE)
    /\ UNCHANGED << ollamaVars, flagVars, netVars, probeVars, modelVars, ops, maskVars, codecVars, saveVars >>

EnsureNext ==
    \/ Ensure
    \/ EnsureAgain

EnsureSpec == EnsureInit /\ [][EnsureNext]_vars

----------------------------------------------------------------------------
(* Properties *)

\* the request the last operation sent
NewestOpenAIRequest == openaiInFlight[Len(openaiInFlight)]

\* position j of a list after the delete at idx holds what position Source(j, idx)
\* held before it
Source(j, idx) == IF j < idx THEN j ELSE j + 1

\* C1: in every reachable state of the OpenAI editor, the initial one included,
\* the URL list, the key-input list, the keep-flag list and the key-descriptor
\* list have the same length.
C1_ListsSameLength ==
    /\ Len(OPENAI_API_KEYS) = Len(OPENAI_API_BASE_URLS)
    /\ Len(OPENAI_API_KEY_KEEP) = Len(OPENAI_API_BASE_URLS)
    /\ Len(OPENAI_API_KEY_METADATA) = Len(OPENAI_API_BASE_URLS)

\* C2: deleting position idx of n connections leaves n - 1 connections; the ones
\* below idx stay, the ones above move down by one, each with its own config
\* (and, for OpenAI, its key input, keep flag and descriptor), and no config is
\* left at the last old position. The OpenAI URLs are the old ones as the update
\* the delete runs normalizes them.
C2_DeleteShiftsAll ==
    /\ last.op = "deleteOpenAI" =>
          LET pre == last.pre
              n == Len(pre.urls)
          IN  /\ Len(OPENAI_API_BASE_URLS) = n - 1
              /\ Len(OPENAI_API_KEYS) = n - 1
              /\ Len(OPENAI_API_KEY_KEEP) = n - 1
              /\ Len(OPENAI_API_KEY_METADATA) = n - 1
              /\ \A j \in 1..(n - 1) :
                    LET src == Source(j, last.idx)
                    IN  /\ OPENAI_API_BASE_URLS[j] = StripTrailingSlash(pre.urls[src])
                        /\ OPENAI_API_KEYS[j] = pre.keys[src]
                        /\ OPENAI_API_KEY_KEEP[j] = pre.keep[src]
                        /\ OPENAI_API_KEY_METADATA[j] = pre.meta[src]
                        /\ HasConfig(OPENAI_API_CONFIGS, j) = HasConfig(pre.configs, src)
                        /\ HasConfig(pre.configs, src) =>
                              ConfigAt(OPENAI_API_CONFIGS, j) = ConfigAt(pre.configs, src)
              /\ DOMAIN OPENAI_API_CONFIGS \subseteq { ConfigKey(j) : j \in 1..(n - 1) }
    /\ last.op = "deleteOllama" =>
          LET pre == last.preOllama
              n == Len(pre.urls)
          IN  /\ Len(OLLAMA_BASE_URLS) = n - 1
              /\ \A j \in 1..(n - 1) :
                    LET src == Source(j, last.idx)
                    IN  /\ OLLAMA_BASE_URLS[j] = pre.urls[src]
                        /\ HasConfig(OLLAMA_API_CONFIGS, j) = HasConfig(pre.configs, src)
                        /\ HasConfig(pre.configs, src) =>
                              ConfigAt(OLLAMA_API_CONFIGS, j) = ConfigAt(pre.configs, src)
              /\ DOMAIN OLLAMA_API_CONFIGS \subseteq { ConfigKey(j) : j \in 1..(n - 1) }

\* the first of two connections with different configs and different
\* descriptors has been deleted
C2_Witness ==
    /\ last.op = "deleteOpenAI"
    /\ last.idx = 1
    /\ Len(last.pre.urls) = 2
    /\ HasConfig(last.pre.configs, 1)
    /\ HasConfig(last.pre.configs, 2)
    /\ ConfigAt(last.pre.configs, 1) # ConfigAt(last.pre.configs, 2)
    /\ last.pre.meta[1] # last.pre.meta[2]

\* C3: a descriptor with has_value=true keeps it, and no empty key value is sent
\* for it, through an edit that does not change the key.
C3_KeyKeptUnlessCleared ==
    ( /\ last.op = "editOpenAI"
      /\ ~last.connection.keyChanged
      /\ last.pre.meta[last.idx].has_value )
    => /\ OPENAI_API_KEY_METADATA[last.idx].has_value
       /\ "value" \in DOMAIN NewestOpenAIRequest.OPENAI_API_KEYS[last.idx] =>
             NewestOpenAIRequest.OPENAI_API_KEYS[last.idx].value # << >>

\* C4: a payload has one entry per URL, in URL order, each holding exactly one
\* of keep or value, and where the keep flag is set the entry is { keep: true }
\* whatever the key input holds.
C4_KeepSendsNoValue ==
    /\ \A k \in 1..Len(openaiInFlight) :
          /\ Len(openaiInFlight[k].OPENAI_API_KEYS) = Len(openaiInFlight[k].OPENAI_API_BASE_URLS)
          /\ \A idx \in 1..Len(openaiInFlight[k].OPENAI_API_KEYS) :
                DOMAIN openaiInFlight[k].OPENAI_API_KEYS[idx] \in { { "keep" }, { "value" } }
    /\ last.sentOpenAI =>
          /\ NewestOpenAIRequest.OPENAI_API_BASE_URLS = OPENAI_API_BASE_URLS
          /\ \A idx \in 1..Len(OPENAI_API_BASE_URLS) :
                LET entry == NewestOpenAIRequest.OPENAI_API_KEYS[idx]
                IN  IF OPENAI_API_KEY_KEEP[idx]
                    THEN DOMAIN entry = { "keep" } /\ entry.keep
                    ELSE DOMAIN entry = { "value" } /\ entry.value = OPENAI_API_KEYS[idx]

\* a request was built while a key input held a key and its keep flag was set
C4_Witness ==
    /\ last.sentOpenAI
    /\ \E idx \in 1..Len(OPENAI_API_BASE_URLS) :
          /\ OPENAI_API_KEY_KEEP[idx]
          /\ OPENAI_API_KEYS[idx] # << >>

\* keep is signalled together with a key value
AmbiguousKeyEdit(connection) ==
    /\ connection.hasStoredKey
    /\ ~connection.keyChanged
    /\ connection.key # << >>

\* C5: an add or an edit that signals keep together with a non-empty key value
\* is rejected: it sends nothing and changes no list.
C5_AmbiguousEditRejected ==
    ( /\ last.op \in { "addOpenAI", "editOpenAI" }
      /\ AmbiguousKeyEdit(last.connection) )
    => /\ ~last.sentOpenAI
       /\ Lists = last.pre

\* the part of the masked string before the characters left readable
MaskedPrefixLen == Len(masked) - Min(Len(key), 4)

\* C6: for a key of length at least 4 the masked string is masking characters
\* followed by the last 4 characters of the key.
C6_MaskShowsLastFour ==
    (maskPc # "input" /\ Len(key) >= 4) =>
        /\ Len(masked) >= 4
        /\ SubSeq(masked, Len(masked) - 3, Len(masked)) = SubSeq(key, Len(key) - 3, Len(key))
        /\ \A i \in 1..(Len(masked) - 4) : masked[i] = Star

\* a key of more than 4 characters whose fifth from the end is no masking
\* character has been masked
C6_Witness ==
    /\ maskPc = "masked"
    /\ Len(key) > 4
    /\ key[Len(key) - 4] # Star

\* C7: the masked string of the descriptor an add or an edit builds for a key
\* never contains the whole key.
C7_MaskedHidesKey ==
    ( /\ last.op \in { "addOpenAI", "editOpenAI" }
      /\ last.connection.key # << >>
      /\ last.op = "editOpenAI" => last.connection.keyChanged )
    => ~Contains(OPENAI_API_KEY_METADATA[last.idx].masked, last.connection.key)

\* the masked string begins with at least 4 masking characters, and keeps the
\* length of a key of 8 characters or more
MaskFloor ==
    /\ MaskedPrefixLen >= 4
    /\ \A i \in 1..MaskedPrefixLen : masked[i] = Star
    /\ Len(key) >= 8 => Len(masked) = Len(key)

\* C8 as stated: for every input, the empty one included, the masked prefix has
\* at least 4 masking characters, and an input of 8 characters or more keeps its
\* length.
C8_MaskFloorAnyInput == maskPc # "input" => MaskFloor

\* C8 as amended: the same for every non-empty input.
C8_MaskFloorNonEmpty == (maskPc # "input" /\ key # << >>) => MaskFloor

\* a key shorter than the floor has been masked
C8_Witness ==
    /\ maskPc = "masked"
    /\ Len(key) = 2
    /\ Len(masked) = 6

\* C9 as stated: masking the masked string again changes nothing, for every key.
C9_MaskIdempotent == maskPc = "remasked" => remasked = masked

\* C9 as amended: masking the masked string again changes nothing, for the empty
\* key and for every key of length at least 4.
C9_MaskIdempotentFromFour ==
    (maskPc = "remasked" /\ (Len(key) = 0 \/ Len(key) >= 4)) => remasked = masked

\* a key of at least 4 characters has been masked twice
C9_Witness ==
    /\ maskPc = "remasked"
    /\ Len(key) >= 4
    /\ masked # key

\* C10: no URL sent by an update, and no URL in the list once the update handler
\* has run, ends in a slash.
C10_NoTrailingSlash ==
    /\ \A k \in 1..Len(openaiInFlight) :
          \A i \in 1..Len(openaiInFlight[k].OPENAI_API_BASE_URLS) :
             ~EndsWithSlash(openaiInFlight[k].OPENAI_API_BASE_URLS[i])
    /\ \A k \in 1..Len(ollamaInFlight) :
          \A i \in 1..Len(ollamaInFlight[k].OLLAMA_BASE_URLS) :
             ~EndsWithSlash(ollamaInFlight[k].OLLAMA_BASE_URLS[i])
    /\ last.sentOpenAI =>
          \A i \in 1..Len(OPENAI_API_BASE_URLS) : ~EndsWithSlash(OPENAI_API_BASE_URLS[i])
    /\ last.sentOllama =>
          \A i \in 1..Len(OLLAMA_BASE_URLS) : ~EndsWithSlash(OLLAMA_BASE_URLS[i])

\* the operations of the user that act on the OpenAI lists, and on the Ollama
\* lists
OpenAIUserOps ==
    { "addOpenAI", "editOpenAI", "deleteOpenAI", "bindOpenAIUrl", "bindOpenAIKey",
      "toggleOpenAI", "save" }

OllamaUserOps ==
    { "addOllama", "submitOllama", "deleteOllama", "bindOllamaUrl", "toggleOllama",
      "save" }

\* the step in which the only OpenAI request in flight, sent by the operation
\* the user performed last, fails
LastOpenAIRequestFails ==
    /\ last'.op = "openaiError"
    /\ last.sentOpenAI
    /\ Len(openaiInFlight) = 1

\* C11: with a non-empty allow-list, once the update of an add or an edit whose
\* normalized URL is not on the allow-list has been rejected, that URL is not in
\* the connection list.
C11_DisallowedUrlNeverListed ==
    [][ ( /\ LastOpenAIRequestFails
          /\ last.op \in { "addOpenAI", "editOpenAI" }
          /\ allowedOpenAIBaseUrls # << >>
          /\ ~ServerAccepts(server, openaiInFlight[1])
          /\ StripTrailingSlash(last.connection.url) \notin Range(allowedOpenAIBaseUrls) )
        => StripTrailingSlash(last.connection.url) \notin Range(StripAll(OPENAI_API_BASE_URLS'))
      ]_vars

\* C12: once the update of an add, an edit or a delete has failed, the five
\* OpenAI lists are those held before that operation began.
C12_RejectedUpdateCommitsNothing ==
    [][ ( /\ LastOpenAIRequestFails
          /\ last.op \in { "addOpenAI", "editOpenAI", "deleteOpenAI" } )
        => Lists' = last.pre
      ]_vars

\* C13: at most one update request of a provider awaits its response, and an
\* operation performed while one does changes none of that provider's lists.
C13_UpdatesSerialized ==
    /\ Len(openaiInFlight) <= 1
    /\ Len(ollamaInFlight) <= 1
    /\ ( /\ last.op \in OpenAIUserOps
         /\ Len(openaiInFlight) > (IF last.sentOpenAI THEN 1 ELSE 0) )
       => Lists = last.pre
    /\ ( /\ last.op \in OllamaUserOps
         /\ Len(ollamaInFlight) > (IF last.sentOllama THEN 1 ELSE 0) )
       => OllamaLists = last.preOllama

\* the step in which one probe is answered or fails
ProbeAnswered ==
    /\ mounted = "done"
    /\ mounted' = "done"
    /\ probes' # probes

\* C14: a probe is pending only once the mount has set the lists, with a URL, a
\* descriptor and a config at the position it asks about; the answer or the
\* failure of a probe ends that probe alone, changes no list, no flag and no
\* request in flight, and while probes are pending an add can be performed as
\* it can without them.
C14_ProbesNeverBlock ==
    /\ [](probes # {} => mounted = "done")
    /\ [](last.op = "mount" =>
            \A p \in probes :
                /\ p.idx <= Len(OPENAI_API_BASE_URLS)
                /\ OPENAI_API_BASE_URLS[p.idx] = p.url
                /\ p.idx <= Len(OPENAI_API_KEY_METADATA)
                /\ HasConfig(OPENAI_API_CONFIGS, p.idx))
    /\ []( ( /\ OpenAIShown
             /\ ops < MaxOps
             /\ CanSendOpenAI
             /\ Len(OPENAI_API_BASE_URLS) < MaxConns )
           => ENABLED (\E connection \in AddInputs : AddOpenAI(connection)) )
    /\ [][ ProbeAnswered =>
              /\ \E p \in probes : probes' = probes \ { p }
              /\ UNCHANGED << openaiVars, ollamaVars, flagVars, netVars, ops, last >>
         ]_vars

\* an added connection has been committed and its response processed while a
\* probe issued at mount is still without an answer
C14_Witness ==
    /\ last.op = "openaiResponse"
    /\ probes # {}
    /\ Len(OPENAI_API_BASE_URLS) = 2
    /\ Len(server.urls) = 2

\* no update request and no getModels call awaits its answer
Quiescent ==
    /\ openaiInFlight = << >>
    /\ ollamaInFlight = << >>
    /\ modelsInFlight = << >>

\* C15: once every request has been answered, the models store holds a list
\* computed from the connection settings committed last.
C15_ModelsFollowCommit ==
    Quiescent => models = Snapshot(server)

\* the flags the backend reports with a config response; a response without
\* them stands for false
ReportedFlags(srv) ==
    [persistence_enabled |-> srv.reportsKeyMetadata /\ srv.persistence_enabled,
     encryption_enabled |-> srv.reportsKeyMetadata /\ srv.encryption_enabled]

\* C16: before the mount the flags are false; from the mount on they are the
\* flags of the config response processed last, whatever the descriptors and
\* the key lists hold and whatever add, edit or delete has run since.
C16_FlagsFromResponse ==
    openAIKeySecurityMeta =
        IF mounted = "done"
        THEN ReportedFlags(server)
        ELSE [persistence_enabled |-> FALSE, encryption_enabled |-> FALSE]

\* a response has been processed that reports encryption while no descriptor
\* it carries has a stored key
C16_Witness ==
    /\ last.op = "openaiResponse"
    /\ openAIKeySecurityMeta.encryption_enabled
    /\ OPENAI_API_KEY_METADATA # << >>
    /\ \A i \in 1..Len(OPENAI_API_KEY_METADATA) : ~OPENAI_API_KEY_METADATA[i].has_value

\* C17: without persistence, a restart leaves no descriptor with has_value=true
\* where one was reported before it, and the editor mounted after the restart
\* holds has_value=false and keep=false for every connection.
C17_RestartFlushesKeys ==
    /\ [][ (last'.op = "restart" /\ ~server.persistence_enabled) =>
              /\ Len(server'.secrets) = Len(server.secrets)
              /\ \A i \in 1..Len(server.secrets) :
                    ServerDescriptor(server.secrets[i]).has_value =>
                        ~ServerOpenAIConfig(server').OPENAI_API_KEYS[i].has_value
         ]_vars
    /\ []( ( /\ last.op = "mount"
             /\ server.restarted
             /\ ~server.persistence_enabled )
           => /\ Len(OPENAI_API_KEY_KEEP) = Len(server.urls)
              /\ \A i \in 1..Len(OPENAI_API_KEY_KEEP) :
                    /\ ~OPENAI_API_KEY_METADATA[i].has_value
                    /\ ~OPENAI_API_KEY_KEEP[i] )

\* the editor has been mounted after a restart that flushed a stored key
C17_Witness ==
    /\ last.op = "mount"
    /\ server.restarted
    /\ ~server.persistence_enabled
    /\ server.flushed # {}

\* C18: right after the mount and right after a processed update response every
\* key input is empty, the keep flag of every position is has_value of its
\* descriptor, and the descriptor is the one the backend reports for that
\* position: has_value, masked and fingerprint, nothing else.
C18_NoKeyRetained ==
    last.op \in { "mount", "openaiResponse" } =>
        /\ Len(OPENAI_API_KEYS) = Len(OPENAI_API_BASE_URLS)
        /\ Len(OPENAI_API_KEY_KEEP) = Len(OPENAI_API_BASE_URLS)
        /\ Len(OPENAI_API_KEY_METADATA) = Len(OPENAI_API_BASE_URLS)
        /\ \A i \in 1..Len(OPENAI_API_BASE_URLS) :
              /\ OPENAI_API_KEYS[i] = << >>
              /\ OPENAI_API_KEY_KEEP[i] = OPENAI_API_KEY_METADATA[i].has_value
              /\ DOMAIN OPENAI_API_KEY_METADATA[i] = { "has_value", "masked", "fingerprint" }
              /\ OPENAI_API_KEY_METADATA[i] = ServerOpenAIConfig(server).OPENAI_API_KEYS[i]

\* the response to an update that carried a typed key has been processed: the
\* key input that held the key is empty and the position is marked keep
C18_Witness ==
    /\ last.op = "openaiResponse"
    /\ \E i \in 1..Len(last.pre.keys) :
          /\ last.pre.keys[i] # << >>
          /\ i <= Len(OPENAI_API_KEY_KEEP)
          /\ OPENAI_API_KEY_KEEP[i]
          /\ server.secrets[i] = last.pre.keys[i]

\* whether a config entry carries a key
CarriesKey(config) == "key" \in DOMAIN config /\ config.key # << >>

\* C19: no config entry the editor holds or has sent, for either provider,
\* carries a connection's key.
C19_NoKeyInConfig ==
    /\ \A c \in DOMAIN OPENAI_API_CONFIGS : ~CarriesKey(OPENAI_API_CONFIGS[c])
    /\ \A c \in DOMAIN OLLAMA_API_CONFIGS : ~CarriesKey(OLLAMA_API_CONFIGS[c])
    /\ \A k \in 1..Len(openaiInFlight) :
          \A c \in DOMAIN openaiInFlight[k].OPENAI_API_CONFIGS :
             ~CarriesKey(openaiInFlight[k].OPENAI_API_CONFIGS[c])
    /\ \A k \in 1..Len(ollamaInFlight) :
          \A c \in DOMAIN ollamaInFlight[k].OLLAMA_API_CONFIGS :
             ~CarriesKey(ollamaInFlight[k].OLLAMA_API_CONFIGS[c])

\* the configs at the first n positions are those of before
SameConfigsUpTo(configs, pre, n) ==
    \A j \in 1..n :
        /\ HasConfig(configs, j) = HasConfig(pre, j)
        /\ HasConfig(pre, j) => ConfigAt(configs, j) = ConfigAt(pre, j)

\* an add to n OpenAI connections: every list has n + 1 entries, the key
\* inputs, keep flags, descriptors and configs of the first n are those of
\* before, the first n URLs are those of before as Url maps them, and the new
\* URL and config are at position n + 1
OpenAIAddAppends(Url(_)) ==
    last.op = "addOpenAI" =>
        LET pre == last.pre
            n == Len(pre.urls)
        IN  /\ Len(OPENAI_API_BASE_URLS) = n + 1
            /\ Len(OPENAI_API_KEYS) = n + 1
            /\ Len(OPENAI_API_KEY_KEEP) = n + 1
            /\ Len(OPENAI_API_KEY_METADATA) = n + 1
            /\ \A j \in 1..n :
                  /\ OPENAI_API_BASE_URLS[j] = Url(pre.urls[j])
                  /\ OPENAI_API_KEYS[j] = pre.keys[j]
                  /\ OPENAI_API_KEY_KEEP[j] = pre.keep[j]
                  /\ OPENAI_API_KEY_METADATA[j] = pre.meta[j]
            /\ SameConfigsUpTo(OPENAI_API_CONFIGS, pre.configs, n)
            /\ OPENAI_API_BASE_URLS[n + 1] = StripTrailingSlash(last.connection.url)
            /\ HasConfig(OPENAI_API_CONFIGS, n + 1)
            /\ ConfigAt(OPENAI_API_CONFIGS, n + 1) = last.connection.config

\* the same for an add to n Ollama connections
OllamaAddAppends(Url(_)) ==
    last.op = "addOllama" =>
        LET pre == last.preOllama
            n == Len(pre.urls)
        IN  /\ Len(OLLAMA_BASE_URLS) = n + 1
            /\ \A j \in 1..n : OLLAMA_BASE_URLS[j] = Url(pre.urls[j])
            /\ SameConfigsUpTo(OLLAMA_API_CONFIGS, pre.configs, n)
            /\ OLLAMA_BASE_URLS[n + 1] = StripTrailingSlash(last.connection.url)
            /\ HasConfig(OLLAMA_API_CONFIGS, n + 1)
            /\ ConfigAt(OLLAMA_API_CONFIGS, n + 1).enable = last.connection.config.enable

Unchanged(url) == url

\* C20 as stated: an add appends at index n and leaves the first n entries of
\* every list, the URLs included, and their configs unchanged.
C20_AddAppends ==
    /\ OpenAIAddAppends(Unchanged)
    /\ OllamaAddAppends(Unchanged)

\* C20 as amended: the same, except that the update the add runs removes one
\* trailing slash from each of the first n URLs.
C20_AddAppendsNormalized ==
    /\ OpenAIAddAppends(StripTrailingSlash)
    /\ OllamaAddAppends(StripTrailingSlash)

\* a connection has been added below one whose URL ended in a slash and whose
\* config differs from the new one
C20_Witness ==
    /\ last.op = "addOpenAI"
    /\ Len(last.pre.urls) >= 1
    /\ EndsWithSlash(last.pre.urls[1])
    /\ HasConfig(last.pre.configs, 1)
    /\ ConfigAt(last.pre.configs, 1) # last.connection.config

\* C21: an edit submitted by a row whose index is no longer in the list sends
\* no update and changes none of the five lists; in particular it writes no
\* URL, key or config at or beyond the length the list had.
C21_StaleEditChangesNothing ==
    last.op = "staleEditOpenAI" =>
        /\ ~last.sentOpenAI
        /\ Lists = last.pre
        /\ Len(OPENAI_API_BASE_URLS) = Len(last.pre.urls)
        /\ ~HasConfig(OPENAI_API_CONFIGS, last.idx)

\* the requests in flight after a step are those of before, with at most one
\* more at the end
AtMostOneMore(before, after) ==
    \/ Len(after) <= Len(before)
    \/ /\ Len(after) = Len(before) + 1
       /\ SubSeq(after, 1, Len(before)) = before

\* a step that is no operation of the user and no answer to a probe, to
\* getModels or to getBackendConfig: an update request is answered or fails
AnswerStep ==
    /\ ops' = ops
    /\ probes' = probes
    /\ modelsInFlight' = modelsInFlight
    /\ models' = models
    /\ configInFlight' = configInFlight

\* C22: a step adds at most one update request per provider; only an operation
\* of the user adds one; and the step in which a request fails takes that
\* request out of flight, records the failure and sends nothing.
C22_NoAutomaticRetry ==
    [][ /\ AtMostOneMore(openaiInFlight, openaiInFlight')
        /\ AtMostOneMore(ollamaInFlight, ollamaInFlight')
        /\ Len(openaiInFlight') > Len(openaiInFlight) =>
              ops' = ops + 1 /\ last'.op \in OpenAIUserOps \cup { "staleEditOpenAI" }
        /\ Len(ollamaInFlight') > Len(ollamaInFlight) =>
              ops' = ops + 1 /\ last'.op \in OllamaUserOps
        /\ (last'.op = "openaiError" /\ AnswerStep) =>
              /\ Len(openaiInFlight') = Len(openaiInFlight) - 1
              /\ ollamaInFlight' = ollamaInFlight
        /\ (last'.op = "ollamaError" /\ AnswerStep) =>
              /\ Len(ollamaInFlight') = Len(ollamaInFlight) - 1
              /\ openaiInFlight' = openaiInFlight
      ]_vars

\* the update of a changed list has failed and no request is in flight
C22_Witness ==
    /\ last.op = "openaiError"
    /\ openaiInFlight = << >>
    /\ ollamaInFlight = << >>
    /\ OPENAI_API_BASE_URLS # server.urls

\* C23: a non-empty secret encrypted under a key and decrypted under the same
\* key is the secret again; decrypted under any other key the answer is
\* DecryptionError, neither a value nor no secret.
C23_SecretRoundTrip ==
    codecPc = "decrypted" =>
        IF readKey = cipherKey
        THEN decrypted = Decrypted(plain)
        ELSE /\ decrypted = DecryptionError
             /\ decrypted.error = "DecryptionError"
             /\ decrypted # NoSecret

\* a secret of two characters whose ciphertext differs from it has been
\* decrypted under a key other than the one it was encrypted under
C23_Witness ==
    /\ codecPc = "decrypted"
    /\ readKey # cipherKey
    /\ Len(plain) = MaxSecretLen
    /\ ciphertext.body # plain

\* the step that processes the response to the earlier of two requests, the
\* response to the later one having been processed just before
EarlierAnsweredLast ==
    /\ last.op = "openaiResponse"
    /\ last.idx = 2
    /\ Len(openaiInFlight) = 1
    /\ last'.op = "openaiResponse"
    /\ openaiInFlight' = << >>

\* the step that processes a response while the lists hold a URL or a key the
\* user typed into a row after the request was sent
AnsweredOverLocalEdit ==
    /\ last.op \in { "bindOpenAIUrl", "bindOpenAIKey" }
    /\ Len(openaiInFlight) >= 1
    /\ last'.op = "openaiResponse"

\* C24: of two requests in flight at once, the lists after both responses are
\* those of the response to the one issued later, in either order of arrival;
\* and a response leaves in place what was typed into a row while its request
\* was in flight.
C24_LaterRequestWins ==
    /\ [][ EarlierAnsweredLast => Lists' = Lists ]_vars
    /\ [][ AnsweredOverLocalEdit =>
              /\ last.idx <= Len(OPENAI_API_BASE_URLS')
              /\ OPENAI_API_BASE_URLS'[last.idx] = OPENAI_API_BASE_URLS[last.idx]
              /\ OPENAI_API_KEYS'[last.idx] = OPENAI_API_KEYS[last.idx]
         ]_vars

\* an edit at idx: the lists keep their length; at every other position the
\* key input, keep flag, descriptor and config are those of before and the URL
\* is that of before as Url maps it; no config of another name is touched; and
\* when the key is not changed the descriptor at idx keeps its masked string
\* and fingerprint
OpenAIEditFrame(Url(_)) ==
    last.op = "editOpenAI" =>
        LET pre == last.pre
            n == Len(pre.urls)
        IN  /\ Len(OPENAI_API_BASE_URLS) = n
            /\ Len(OPENAI_API_KEYS) = n
            /\ Len(OPENAI_API_KEY_KEEP) = n
            /\ Len(OPENAI_API_KEY_METADATA) = n
            /\ \A j \in (1..n) \ { last.idx } :
                  /\ OPENAI_API_BASE_URLS[j] = Url(pre.urls[j])
                  /\ OPENAI_API_KEYS[j] = pre.keys[j]
                  /\ OPENAI_API_KEY_KEEP[j] = pre.keep[j]
                  /\ OPENAI_API_KEY_METADATA[j] = pre.meta[j]
            /\ DOMAIN OPENAI_API_CONFIGS = DOMAIN pre.configs \cup { ConfigKey(last.idx) }
            /\ \A c \in DOMAIN pre.configs \ { ConfigKey(last.idx) } :
                  OPENAI_API_CONFIGS[c] = pre.configs[c]
            /\ ~last.connection.keyChanged =>
                  /\ OPENAI_API_KEY_METADATA[last.idx].masked = pre.meta[last.idx].masked
                  /\ OPENAI_API_KEY_METADATA[last.idx].fingerprint = pre.meta[last.idx].fingerprint

\* C25 as stated: an edit at idx leaves the URL, key input, keep flag,
\* descriptor and config of every other index unchanged, and without a key
\* change the descriptor at idx keeps its masked string and fingerprint.
C25_EditChangesOnlyIdx == OpenAIEditFrame(Unchanged)

\* C25 as amended: the same, except that the update the edit runs removes one
\* trailing slash from the URL of every other index.
C25_EditChangesOnlyIdxNormalized == OpenAIEditFrame(StripTrailingSlash)

\* the first of two connections, whose descriptor carries a masked string and
\* a fingerprint, has been edited without a key change while the URL of the
\* other ended in a slash
C25_Witness ==
    /\ last.op = "editOpenAI"
    /\ last.idx = 1
    /\ ~last.connection.keyChanged
    /\ Len(last.pre.urls) = 2
    /\ EndsWithSlash(last.pre.urls[2])
    /\ last.pre.meta[1].masked # << >>
    /\ last.pre.meta[1].fingerprint # NullFingerprint

\* list is before cut to n entries, or before followed by fill up to n entries
FittedTo(list, before, n, fill) ==
    /\ Len(list) = n
    /\ \A i \in 1..Min(Len(before), n) : list[i] = before[i]
    /\ \A i \in (Len(before) + 1)..n : list[i] = fill

OneMore(before, after) ==
    /\ Len(after) = Len(before) + 1
    /\ SubSeq(after, 1, Len(before)) = before

\* the step in which the user saves
SaveStep == ops' = ops + 1 /\ last'.op = "save"

\* what a save does besides its requests: 'save' is dispatched once and one
\* getBackendConfig call is made in the same step, and no other step of the
\* editor, the failure of an update included, dispatches or takes back a 'save'
SaveDispatchesOnce ==
    /\ SaveStep => saveEvents' = saveEvents + 1 /\ configInFlight' = configInFlight + 1
    /\ saveEvents' # saveEvents => SaveStep \/ last'.op = "restart"

\* C27 as stated: a save issues an OpenAI update request and an Ollama update
\* request, and in the same step, while both await their response, dispatches
\* 'save' once and calls getBackendConfig; a failing update changes none of it.
C27_SaveIssuesBothAndDispatches ==
    [][ /\ SaveStep =>
              /\ OneMore(openaiInFlight, openaiInFlight')
              /\ OneMore(ollamaInFlight, ollamaInFlight')
        /\ SaveDispatchesOnce
      ]_vars

\* C27 as amended: a save issues an update request for each provider whose
\* enable flag is loaded, and none for a provider whose flag is still null; the
\* rest as stated.
C27_SaveIssuesLoadedAndDispatches ==
    [][ /\ SaveStep =>
              /\ IF ENABLE_OPENAI_API # Null
                 THEN OneMore(openaiInFlight, openaiInFlight')
                 ELSE openaiInFlight' = openaiInFlight
              /\ IF ENABLE_OLLAMA_API # Null
                 THEN OneMore(ollamaInFlight, ollamaInFlight')
                 ELSE ollamaInFlight' = ollamaInFlight
        /\ SaveDispatchesOnce
      ]_vars

\* the user has saved once, both requests were issued, and the OpenAI one has
\* failed while the Ollama one still awaits its response
C27_Witness ==
    /\ ops = 1
    /\ saveEvents = 1
    /\ last.op = "openaiError"
    /\ openaiInFlight = << >>
    /\ Len(ollamaInFlight) = 1

\* what the backend holds for each provider
ServerOpenAI(srv) ==
    << srv.enable, srv.urls, srv.configs, srv.secrets >>

ServerOllama(srv) ==
    << srv.ollamaEnable, srv.ollamaUrls, srv.ollamaConfigs >>

\* C28: while the enable flag of a provider is null no update request of that
\* provider is in flight; a step taken while it is null, the mount apart, sends
\* none, changes none of that provider's lists in the editor and changes
\* nothing the backend holds for it; so every request carries lists the mount
\* loaded.
C28_NoUpdateBeforeLoad ==
    /\ [](ENABLE_OPENAI_API = Null => openaiInFlight = << >>)
    /\ [](ENABLE_OLLAMA_API = Null => ollamaInFlight = << >>)
    /\ [](openaiInFlight # << >> \/ ollamaInFlight # << >> => mounted = "done")
    /\ [][ (ENABLE_OPENAI_API = Null /\ last'.op # "mount") =>
              /\ openaiInFlight' = << >>
              /\ Lists' = Lists
              /\ ServerOpenAI(server') = ServerOpenAI(server)
         ]_vars
    /\ [][ (ENABLE_OLLAMA_API = Null /\ last'.op # "mount") =>
              /\ ollamaInFlight' = << >>
              /\ OllamaLists' = OllamaLists
              /\ ServerOllama(server') = ServerOllama(server)
         ]_vars

\* the user has saved while both flags were null and the editor held its
\* placeholder lists, which differ from the backend's
C28_Witness ==
    /\ last.op = "save"
    /\ ENABLE_OPENAI_API = Null
    /\ ENABLE_OLLAMA_API = Null
    /\ saveEvents = 1
    /\ OPENAI_API_BASE_URLS = << << >> >>
    /\ server.urls # OPENAI_API_BASE_URLS

\* C29: where the OpenAI connections are on screen, the warning that stored
\* keys remain in memory only is shown exactly when the response processed
\* last reports persistence_enabled=false; it is not shown while that response
\* reports persistence_enabled=true.
C29_WarningIffNotPersisted ==
    OpenAIShown =>
        (EncryptionWarningShown <=> ~openAIKeySecurityMeta.persistence_enabled)

\* the config the mount gives position i of the backend's connections: the
\* positional one, else the one named by the URL, else the empty one
MountedConfig(srv, i) ==
    IF HasConfig(srv.configs, i)
    THEN ConfigAt(srv.configs, i)
    ELSE IF srv.urls[i] \in DOMAIN srv.configs
         THEN srv.configs[srv.urls[i]]
         ELSE EmptyConfig

\* C30: right after a mount with the OpenAI provider enabled every position
\* holds a config, its positional one, else the legacy one of its URL, else
\* the empty one, and the probes issued are those of the positions whose config
\* does not have enable=false; the pipeline markers grow only by the URL of a
\* probe that is answered, and no edit, delete or other step of the editor
\* takes one away.
C30_MountConfigsAndProbes ==
    /\ [][ (mounted = "pending" /\ last'.op = "mount") =>
              IF ENABLE_OPENAI_API' = On
              THEN /\ \A i \in 1..Len(OPENAI_API_BASE_URLS') :
                         /\ HasConfig(OPENAI_API_CONFIGS', i)
                         /\ ConfigAt(OPENAI_API_CONFIGS', i) = MountedConfig(server, i)
                   /\ \A i \in 1..Len(OPENAI_API_BASE_URLS') :
                         ([idx |-> i, url |-> OPENAI_API_BASE_URLS'[i]] \in probes')
                            <=> ConfigAt(OPENAI_API_CONFIGS', i).enable # Off
                   /\ \A p \in probes' : p.idx \in 1..Len(OPENAI_API_BASE_URLS')
              ELSE probes' = {}
         ]_vars
    /\ [][ pipelineUrls' # pipelineUrls =>
              \/ last'.op = "restart" /\ ops' = ops + 1
              \/ \E p \in probes :
                    /\ probes' = probes \ { p }
                    /\ pipelineUrls' = pipelineUrls \cup { p.url }
         ]_vars

\* the only connection, mounted without a config of its own and marked as a
\* pipeline by its probe, has been deleted and the marker is still set
C30_Witness ==
    /\ last.op = "deleteOpenAI"
    /\ OPENAI_API_BASE_URLS = << >>
    /\ server.configs = NoConfigs
    /\ UrlA \in pipelineUrls

====
